---- MODULE Spec2Model ----
(***************************************************************************)
(* A model of estimagic's POUNDERs bridge (optimization/tao_optimizers.py), *)
(* its argument check (optimization/check_arguments.py) and the histogram   *)
(* pipeline of the interactive distribution plot                            *)
(* (visualization/distribution_plot/histogram_columns.py, basic_plot.py).   *)
(*                                                                          *)
(* Four specifications share the module's variables; each one moves only    *)
(* the variables of its own subsystem:                                      *)
(*   SpecTao    one call of tao_pounders against a TAO solver               *)
(*   SpecCheck  one call of check_argument                                  *)
(*   SpecHist   one call of add_histogram_columns_to_tidy_df                *)
(*   SpecPlots  the loop of _create_plots over the group tuples             *)
(***************************************************************************)
EXTENDS Integers, Sequences, FiniteSets, TLC

VARIABLES
    opt,        \* tao_pounders: the keyword arguments of the call
    pc,         \* tao_pounders: position in the function body
    calls,      \* tao_pounders: the calls made on the PETSc objects, in order
    tao,        \* the state of the TAO solver object
    outcome,    \* tao_pounders: "running", "returned" or the exception raised
    results,    \* tao_pounders: the dictionary of processed results
    argument,   \* check_argument: the argument dictionary
    ca,         \* check_argument: position in the function and its outcome
    hist,       \* add_histogram_columns_to_tidy_df: input, options and output
    plt         \* _create_plots: loop state (remembered tuple, figures, ...)

vars == <<opt, pc, calls, tao, outcome, results, argument, ca, hist, plt>>

\* the variables each subsystem leaves alone
notTao == <<argument, ca, hist, plt>>
notCheck == <<opt, pc, calls, tao, outcome, results, hist, plt>>
notHist == <<opt, pc, calls, tao, outcome, results, argument, ca, plt>>
notPlots == <<opt, pc, calls, tao, outcome, results, argument, ca, hist>>

(***************************************************************************)
(* Bounds of the model.                                                     *)
(***************************************************************************)
MaxVal == 1     \* criterion value, gradient norm and the absolute and the
                \* relative gradient tolerance are drawn from 0..MaxVal
MaxIts == 1     \* iterations of the solver; stopping_max_iterations <= MaxIts
MaxWrong == 2   \* entries of the argument dictionary given another type
MaxRows == 3    \* rows of the tidy DataFrame
MaxPlots == 3   \* group tuples the loop of _create_plots walks over

(***************************************************************************)
(* Python values.  A value is a record with a tag and a number: None and    *)
(* False are distinct objects, False counts as 0 in a comparison, and both  *)
(* None, False and 0 are falsy.                                             *)
(***************************************************************************)
NoneV == [tag |-> "None", v |-> 0]
FalseV == [tag |-> "False", v |-> 0]
Num(n) == [tag |-> "num", v |-> n]

\* bool(x) of a Python value x
Truthy(x) == x.tag = "num" /\ x.v # 0

\* x is False
IsFalse(x) == x.tag = "False"

\* x is None
IsNone(x) == x.tag = "None"

\* The string standing for Python's None in a string-valued field.
PyNone == "None"

\* last position of a call in the log, 0 if absent
RECURSIVE LastIndex(_, _, _)
LastIndex(s, c, i) ==
    IF i = 0 THEN 0
    ELSE IF s[i] = c THEN i
    ELSE LastIndex(s, c, i - 1)

\* number of occurrences of a call in the log
Count(s, c) == Cardinality({i \in 1..Len(s) : s[i] = c})

(***************************************************************************)
(* tao_optimizers.py                                                        *)
(***************************************************************************)

\* calculate_trustregion_initial_radius(x): defined in
\* estimagic.optimization.utilities; its value is kept symbolic.
calculate_trustregion_initial_radius(x) == [tag |-> "computed", v |-> x]

\* elif trustregion_initial_radius <= 0 (reached only when it is not None)
RadiusRejectedOffByOne(r) == r.v < 0
RadiusRejected(r) == r.v <= 0

\* default_gatol / default_gttol / default_grtol: x if x else -1
DefaultTolIdentityTest(x) == IF IsFalse(x) THEN -1 ELSE x.v
DefaultTol(x) == IF Truthy(x) THEN x.v ELSE -1

\* What a convergence test does in one call: the value it returns ("0" or
\* "None"), the reason it hands to tao.setConvergedReason (set = FALSE: no
\* call) and the exception it raises ("" for none).
Ret0 == [ret |-> "0", set |-> FALSE, reason |-> 0, raises |-> ""]
SetReason(r) == [ret |-> "None", set |-> TRUE, reason |-> r, raises |-> ""]
RetNone == [ret |-> "None", set |-> FALSE, reason |-> 0, raises |-> ""]
Raises(e) == [ret |-> "None", set |-> FALSE, reason |-> 0, raises |-> e]

\* tao.getSolutionStatus()[2] / tao.getSolutionStatus()[1] >= tol, on Python
\* floats; evaluated only for f # 0 (f >= 0: a sum of squares).
RatioGE(g, f, tol) == g >= tol * f
RatioLT(g, f, tol) == g < tol * f

\* _max_iters(max_iterations, tao)
max_iters_late(max_iterations, its) ==
    IF its <= max_iterations THEN Ret0 ELSE SetReason(8)
max_iters(max_iterations, its) ==
    IF its < max_iterations THEN Ret0
    ELSE IF its >= max_iterations THEN SetReason(8)
    ELSE RetNone

\* _gatol_conv(absolute_gradient_tolerance, tao)
gatol_conv(atol, g) ==
    IF g >= atol THEN Ret0
    ELSE IF g < atol THEN SetReason(3)
    ELSE RetNone

\* _grtol_conv(relative_gradient_tolerance, tao)
grtol_conv(rtol, g, f) ==
    IF f = 0 THEN Raises("ZeroDivisionError")
    ELSE IF RatioGE(g, f, rtol) THEN Ret0
    ELSE IF RatioLT(g, f, rtol) THEN SetReason(4)
    ELSE RetNone

\* _grtol_gatol_conv(relative_gradient_tolerance, absolute_gradient_tolerance, tao)
grtol_gatol_conv(rtol, atol, g, f) ==
    IF f = 0 THEN Raises("ZeroDivisionError")
    ELSE IF RatioGE(g, f, rtol) THEN Ret0
    ELSE IF RatioLT(g, f, rtol) THEN SetReason(4)
    ELSE IF g < atol THEN SetReason(3)
    ELSE RetNone

\* The convergence test tao_pounders installs (lines 200-223): "none" leaves
\* the solver's default test in place.
NoTest == [kind |-> "none", a |-> 0, b |-> 0]
SelectTest(o) ==
    IF ~IsNone(o.maxit)
        THEN [kind |-> "max_iters", a |-> o.maxit.v, b |-> 0]
    ELSE IF IsFalse(o.gttol) /\ IsFalse(o.gatol)
        THEN [kind |-> "grtol", a |-> o.grtol.v, b |-> 0]
    ELSE IF IsFalse(o.grtol) /\ IsFalse(o.gttol)
        THEN [kind |-> "gatol", a |-> o.gatol.v, b |-> 0]
    ELSE IF IsFalse(o.gttol)
        THEN [kind |-> "grtol_gatol", a |-> o.grtol.v, b |-> o.gatol.v]
    ELSE NoTest

\* One call of the installed test on the solver's status (its, f, gnorm).
RunTest(t, its, f, g) ==
    CASE t.kind = "max_iters" -> max_iters(t.a, its)
      [] t.kind = "grtol" -> grtol_conv(t.a, g, f)
      [] t.kind = "gatol" -> gatol_conv(t.a, g)
      [] t.kind = "grtol_gatol" -> grtol_gatol_conv(t.a, t.b, g, f)

\* mapping of _translate_tao_convergence_reason
TaoMapping ==
    (3 :> "absolute_gradient_tolerance below critical value") @@
    (4 :> "relative_gradient_tolerance below critical value") @@
    (5 :> "scaled_gradient_tolerance below critical value") @@
    (6 :> "step size small") @@
    (7 :> "objective below min value") @@
    (8 :> "user defined") @@
    (-2 :> "maxits reached") @@
    (-4 :> "numerical problems") @@
    (-5 :> "max funcevals reached") @@
    (-6 :> "line search failure") @@
    (-7 :> "trust region failure") @@
    (-8 :> "user defined")

\* The reasons a TAO solver can stop with: the table's codes and the two
\* converged codes of PETSc's enumeration the table leaves out.
TaoReasons == DOMAIN TaoMapping \cup {1, 2}

\* _translate_tao_convergence_reason(tao_resaon), for a code of the table
translate_tao_convergence_reason(r) == TaoMapping[r]

\* _process_pounders_results(residuals_out, tao), for a code of the table
SuccessStrict(code) == code > 3
Success(code) == code >= 0
Reached(code, why) == IF code >= 0 THEN why ELSE PyNone
process_pounders_results(t) ==
    LET convergence_code == t.reason
        convergence_reason == translate_tao_convergence_reason(convergence_code)
    IN [solution_criterion |-> t.f,
        n_criterion_evaluations |-> t.its,
        success |-> Success(convergence_code),
        reached_convergence_criterion |->
            Reached(convergence_code, convergence_reason),
        message |-> convergence_reason,
        gradient_norm |-> t.gnorm,
        convergence_code |-> convergence_code]

NoResults == [solution_criterion |-> 0,
              n_criterion_evaluations |-> 0,
              success |-> FALSE,
              reached_convergence_criterion |-> PyNone,
              message |-> PyNone,
              gradient_norm |-> 0,
              convergence_code |-> 0]

(***************************************************************************)
(* The TAO solver object and one call of tao_pounders.                      *)
(***************************************************************************)
Unset == [tag |-> "unset", v |-> 0]

\* PETSc.TAO().create(...): nothing set, no iteration done, still iterating
NewTao == [radius |-> Unset, tolSet |-> FALSE, gatol |-> 0, grtol |-> 0,
           gttol |-> 0, test |-> NoTest, its |-> 0, f |-> 0, gnorm |-> 0,
           reason |-> 0, by |-> "none"]

\* for obj in [tao, x, residuals_out, lower_bounds, upper_bounds]: obj.destroy()
DestroyOrderWithoutSolver ==
    <<"destroy_x", "destroy_residuals_out", "destroy_lower_bounds",
      "destroy_upper_bounds">>
DestroyOrder ==
    <<"destroy_tao", "destroy_x", "destroy_residuals_out",
      "destroy_lower_bounds", "destroy_upper_bounds">>

Destroys == {"destroy_tao", "destroy_x", "destroy_residuals_out",
             "destroy_lower_bounds", "destroy_upper_bounds"}

NumDestroyed == Cardinality({i \in 1..Len(calls) : calls[i] \in Destroys})

\* The scaled tolerance is only handed to the solver, never compared.
Tolerances == {FalseV} \cup {Num(n) : n \in 0..MaxVal}
ScaledTolerances == {FalseV, Num(0), Num(1)}
Radii == {NoneV, Num(-1), Num(0), Num(1)}
MaxIterations == {NoneV} \cup {Num(n) : n \in 0..MaxIts}
StartVectors == {"x0"}

Options ==
    [gatol : Tolerances, grtol : Tolerances, gttol : ScaledTolerances,
     radius : Radii, maxit : MaxIterations, x : StartVectors,
     installed : BOOLEAN]

Raise(e) ==
    /\ outcome' = e
    /\ pc' = "raised"

\* lines 110-139: the guard on petsc4py, the two vectors and the solver
Create ==
    /\ pc = "start"
    /\ IF ~opt.installed
          THEN /\ Raise("NotImplementedError")
               /\ UNCHANGED calls
          ELSE /\ calls' = calls \o <<"create_x", "create_residuals_out",
                                      "create_tao", "setType", "setFromOptions">>
               /\ pc' = "setResidual"
               /\ UNCHANGED outcome
    /\ UNCHANGED <<opt, tao, results>>
    /\ UNCHANGED notTao

\* line 156
SetResidual ==
    /\ pc = "setResidual"
    /\ calls' = Append(calls, "setResidual")
    /\ pc' = "radius"
    /\ UNCHANGED <<opt, tao, outcome, results>>
    /\ UNCHANGED notTao

\* lines 158-162
SetInitialTrustRegionRadius ==
    /\ pc = "radius"
    /\ IF IsNone(opt.radius)
          THEN /\ tao' = [tao EXCEPT
                          !.radius = calculate_trustregion_initial_radius(opt.x)]
               /\ calls' = Append(calls, "setInitialTrustRegionRadius")
               /\ pc' = "bounds"
               /\ UNCHANGED outcome
          ELSE IF RadiusRejected(opt.radius)
          THEN /\ Raise("ValueError")
               /\ UNCHANGED <<tao, calls>>
          ELSE /\ tao' = [tao EXCEPT !.radius = opt.radius]
               /\ calls' = Append(calls, "setInitialTrustRegionRadius")
               /\ pc' = "bounds"
               /\ UNCHANGED outcome
    /\ UNCHANGED <<opt, results>>
    /\ UNCHANGED notTao

\* lines 165-167
SetVariableBounds ==
    /\ pc = "bounds"
    /\ calls' = calls \o <<"create_lower_bounds", "create_upper_bounds",
                           "setVariableBounds">>
    /\ pc' = "initial"
    /\ UNCHANGED <<opt, tao, outcome, results>>
    /\ UNCHANGED notTao

\* line 170
SetInitial ==
    /\ pc = "initial"
    /\ calls' = Append(calls, "setInitial")
    /\ pc' = "tolerances"
    /\ UNCHANGED <<opt, tao, outcome, results>>
    /\ UNCHANGED notTao

\* lines 176-196
SetTolerances ==
    /\ pc = "tolerances"
    /\ tao' = [tao EXCEPT !.tolSet = TRUE,
                          !.gatol = DefaultTol(opt.gatol),
                          !.grtol = DefaultTol(opt.grtol),
                          !.gttol = DefaultTol(opt.gttol)]
    /\ calls' = Append(calls, "setTolerances")
    /\ pc' = "test"
    /\ UNCHANGED <<opt, outcome, results>>
    /\ UNCHANGED notTao

\* lines 200-223
SetConvergenceTest ==
    /\ pc = "test"
    /\ tao' = [tao EXCEPT !.test = SelectTest(opt)]
    /\ calls' = IF SelectTest(opt).kind = "none" THEN calls
                ELSE Append(calls, "setConvergenceTest")
    /\ pc' = "solve"
    /\ UNCHANGED <<opt, outcome, results>>
    /\ UNCHANGED notTao

\* The reason the solver holds after one call of the installed test through
\* petsc4py: a returned 0 is handed to TaoSetConvergedReason, a returned None
\* leaves what the test set itself.
ReasonAfter(r, before) ==
    IF r.ret = "0" THEN 0
    ELSE IF r.set THEN r.reason
    ELSE before

\* The solver evaluates the criterion at its current point and asks its
\* convergence test: the installed one, or else its default test, which may
\* stop with any reason.
Evaluate(its) ==
    \E f \in 0..MaxVal, g \in 0..MaxVal :
        IF tao.test.kind = "none"
        THEN \E r \in TaoReasons \cup {0} :
                /\ tao' = [tao EXCEPT !.its = its, !.f = f, !.gnorm = g,
                                      !.reason = r,
                                      !.by = IF r = 0 THEN "none" ELSE "default"]
                /\ pc' = IF r = 0 THEN "iterate" ELSE "process"
                /\ UNCHANGED outcome
        ELSE LET r == RunTest(tao.test, its, f, g)
                 after == ReasonAfter(r, tao.reason)
             IN IF r.raises # ""
                THEN /\ Raise(r.raises)
                     /\ tao' = [tao EXCEPT !.its = its, !.f = f, !.gnorm = g]
                ELSE /\ tao' = [tao EXCEPT !.its = its, !.f = f, !.gnorm = g,
                                           !.reason = after,
                                           !.by = IF after = 0 THEN "none"
                                                  ELSE tao.test.kind]
                     /\ pc' = IF after = 0 THEN "iterate" ELSE "process"
                     /\ UNCHANGED outcome

\* line 226: tao.solve() starts at the initial point
Solve ==
    /\ pc = "solve"
    /\ calls' = Append(calls, "solve")
    /\ Evaluate(0)
    /\ UNCHANGED <<opt, results>>
    /\ UNCHANGED notTao

\* line 226: one more iteration of the solver, while it has no reason to stop
Iterate ==
    /\ pc = "iterate"
    /\ tao.its < MaxIts
    /\ Evaluate(tao.its + 1)
    /\ UNCHANGED <<opt, calls, results>>
    /\ UNCHANGED notTao

\* line 228
ProcessResults ==
    /\ pc = "process"
    /\ IF tao.reason \in DOMAIN TaoMapping
          THEN /\ results' = process_pounders_results(tao)
               /\ calls' = calls \o <<"getConvergedReason", "read_tao",
                                      "read_residuals_out">>
               /\ pc' = "destroy"
               /\ UNCHANGED outcome
          ELSE /\ Raise("KeyError")
               /\ calls' = Append(calls, "getConvergedReason")
               /\ UNCHANGED results
    /\ UNCHANGED <<opt, tao>>
    /\ UNCHANGED notTao

\* lines 231-232: one pass of the loop
Destroy ==
    /\ pc = "destroy"
    /\ NumDestroyed < Len(DestroyOrder)
    /\ calls' = Append(calls, DestroyOrder[NumDestroyed + 1])
    /\ UNCHANGED <<opt, pc, tao, outcome, results>>
    /\ UNCHANGED notTao

\* line 234
Return ==
    /\ pc = "destroy"
    /\ NumDestroyed >= Len(DestroyOrder)
    /\ outcome' = "returned"
    /\ pc' = "done"
    /\ UNCHANGED <<opt, calls, tao, results>>
    /\ UNCHANGED notTao

IdleTao ==
    /\ opt = [gatol |-> FalseV, grtol |-> FalseV, gttol |-> FalseV,
              radius |-> NoneV, maxit |-> NoneV, x |-> "x0",
              installed |-> FALSE]
    /\ pc = "idle"
    /\ calls = <<>>
    /\ tao = NewTao
    /\ outcome = "running"
    /\ results = NoResults

IdleCheck ==
    /\ argument = <<>>
    /\ ca = [phase |-> "idle", i |-> 0, outcome |-> "pending"]

IdleHist ==
    hist = [phase |-> "idle", df |-> <<>>, group_cols |-> 0,
            subgroup_col |-> FALSE, num_bins |-> 1,
            x_padding |-> [p |-> 0, q |-> 1], marks_dropped |-> FALSE,
            outcome |-> "pending"]

IdlePlots ==
    plt = [phase |-> "idle", group_cols |-> 0, gb |-> <<>>, i |-> 0,
           old_group_tup |-> <<>>, plots |-> <<>>, new_group |-> FALSE]

InitTao ==
    /\ opt \in Options
    /\ pc = "start"
    /\ calls = <<>>
    /\ tao = NewTao
    /\ outcome = "running"
    /\ results = NoResults
    /\ IdleCheck
    /\ IdleHist
    /\ IdlePlots

NextTao ==
    \/ Create
    \/ SetResidual
    \/ SetInitialTrustRegionRadius
    \/ SetVariableBounds
    \/ SetInitial
    \/ SetTolerances
    \/ SetConvergenceTest
    \/ Solve
    \/ Iterate
    \/ ProcessResults
    \/ Destroy
    \/ Return

SpecTao == InitTao /\ [][NextTao]_vars

(***************************************************************************)
(* Properties of tao_pounders (SpecTao).                                    *)
(***************************************************************************)
Pos(c) == LastIndex(calls, c, Len(calls))

\* the positions that follow the check of the trust region radius
PastRadius == Count(calls, "setResidual") = 1 /\ pc # "radius"

\* the solver's convergence test has been asked at least once
Asked == pc \in {"iterate", "process", "destroy", "done"}

\* C1: with petsc4py installed, a given trustregion_initial_radius <= 0 makes
\* the call raise ValueError before any radius is set and before tao.solve;
\* a radius of None hands the solver the value computed from the start
\* vector; any other given radius is handed over unchanged.
C1_RadiusContract ==
    /\ (opt.installed /\ opt.radius.tag = "num" /\ opt.radius.v <= 0) =>
          /\ Count(calls, "solve") = 0
          /\ Count(calls, "setInitialTrustRegionRadius") = 0
          /\ tao.radius = Unset
          /\ PastRadius => (pc = "raised" /\ outcome = "ValueError")
    /\ (IsNone(opt.radius) /\ PastRadius) =>
          /\ tao.radius = calculate_trustregion_initial_radius(opt.x)
          /\ outcome # "ValueError"
    /\ (opt.radius.tag = "num" /\ opt.radius.v > 0 /\ PastRadius) =>
          /\ tao.radius = opt.radius
          /\ outcome # "ValueError"

C1_Witness ==
    /\ opt.radius = Num(0)
    /\ outcome = "ValueError"
    /\ Count(calls, "setResidual") = 1

C3_AbsoluteToleranceStops ==
    (/\ IsNone(opt.maxit)
     /\ IsFalse(opt.gttol) /\ ~IsFalse(opt.grtol) /\ ~IsFalse(opt.gatol)
     /\ Asked
     /\ tao.f # 0) =>
        /\ tao.test.kind = "grtol_gatol"
        /\ (tao.gnorm < opt.gatol.v /\ RatioGE(tao.gnorm, tao.f, opt.grtol.v)) =>
              tao.reason = 3
        /\ RatioLT(tao.gnorm, tao.f, opt.grtol.v) => tao.reason \in {3, 4}

\* C4, as stated: a tolerance that is False is handed to tao.setTolerances
\* as -1 and every other one as its own value; with stopping_max_iterations
\* None no installed test sets the reason of a tolerance that is False; and
\* the installed test is chosen by the first case that applies: scaled and
\* absolute False: relative only; relative and scaled False: absolute only;
\* only scaled False: relative and absolute; scaled not False: none.
HandedAsStated(x, handed) == handed = IF IsFalse(x) THEN -1 ELSE x.v

HandedFalsy(x, handed) == handed = IF IsFalse(x) \/ x.v = 0 THEN -1 ELSE x.v

NoSwitchedOffReason ==
    (IsNone(opt.maxit) /\ tao.by \notin {"none", "default"}) =>
        /\ IsFalse(opt.gatol) => tao.reason # 3
        /\ IsFalse(opt.grtol) => tao.reason # 4

TestSelection ==
    (IsNone(opt.maxit) /\ pc \in {"solve", "iterate", "process", "destroy", "done"}) =>
        tao.test.kind =
            IF IsFalse(opt.gttol) /\ IsFalse(opt.gatol) THEN "grtol"
            ELSE IF IsFalse(opt.grtol) /\ IsFalse(opt.gttol) THEN "gatol"
            ELSE IF IsFalse(opt.gttol) THEN "grtol_gatol"
            ELSE "none"

C5_ResultsTranslation ==
    pc \in {"destroy", "done"} =>
        LET c == tao.reason
        IN /\ c \in DOMAIN TaoMapping
           /\ results.convergence_code = c
           /\ results.message = TaoMapping[c]
           /\ results.success = (c >= 0)
           /\ results.reached_convergence_criterion =
                 (IF c >= 0 THEN TaoMapping[c] ELSE PyNone)
           /\ results.success <=> (results.reached_convergence_criterion # PyNone)

C5_Witness ==
    /\ pc = "done"
    /\ results.convergence_code = -8
    /\ results.message = "user defined"
    /\ results.success = FALSE
    /\ results.reached_convergence_criterion = PyNone

\* C10: in a call that returns, the residual callback, the trust region
\* radius, the bounds, the initial point, the tolerances and (if one is
\* installed) the convergence test are each set once and before tao.solve;
\* tao.solve is called exactly once; the results are read after solve and
\* before the first destroy; and each of the five PETSc objects is destroyed
\* exactly once.
Setters == {"setResidual", "setInitialTrustRegionRadius", "setVariableBounds",
            "setInitial", "setTolerances"}

Reads == {"getConvergedReason", "read_tao", "read_residuals_out"}

C10_Lifecycle ==
    outcome = "returned" =>
        /\ Count(calls, "solve") = 1
        /\ \A c \in Setters : Count(calls, c) = 1 /\ Pos(c) < Pos("solve")
        /\ Count(calls, "setConvergenceTest") =
              (IF tao.test.kind = "none" THEN 0 ELSE 1)
        /\ Pos("setConvergenceTest") < Pos("solve")
        /\ \A r \in Reads :
              /\ Count(calls, r) = 1
              /\ Pos("solve") < Pos(r)
              /\ \A d \in Destroys : Pos(r) < Pos(d)
        /\ \A d \in Destroys : Count(calls, d) = 1

C10_Witness ==
    /\ outcome = "returned"
    /\ tao.test.kind = "grtol_gatol"
    /\ calls[Len(calls)] = "destroy_upper_bounds"
    /\ Count(calls, "setConvergenceTest") = 1

(***************************************************************************)
(* check_arguments.py                                                       *)
(***************************************************************************)

\* the names of valid_types, in the order of the table; the argument
\* dictionary holds one entry per name, in this order
ArgNames ==
    <<"direction", "criterion", "params", "algorithm", "criterion_kwargs",
      "constraints", "algo_options", "derivative", "derivative_kwargs",
      "criterion_and_derivative", "criterion_and_derivative_kwargs",
      "numdiff_options", "logging", "log_options", "error_handling",
      "error_penalty", "cache_size">>

\* valid_types (lines 8-26); typing.Callable accepts what is callable
valid_types ==
    [direction |-> {"str"},
     criterion |-> {"callable"},
     params |-> {"DataFrame"},
     algorithm |-> {"str", "callable"},
     criterion_kwargs |-> {"dict"},
     constraints |-> {"list"},
     algo_options |-> {"dict"},
     derivative |-> {"NoneType", "callable"},
     derivative_kwargs |-> {"dict"},
     criterion_and_derivative |-> {"NoneType", "callable"},
     criterion_and_derivative_kwargs |-> {"dict"},
     numdiff_options |-> {"dict"},
     logging |-> {"bool", "Path"},
     log_options |-> {"dict"},
     error_handling |-> {"str"},
     error_penalty |-> {"dict"},
     cache_size |-> {"int", "float"}]

\* issubclass(kind, t): bool is a subclass of int
IsSubclass(kind, t) == kind = t \/ (kind = "bool" /\ t = "int")

\* isinstance(argument[arg], valid_types[arg])
isinstance(entry) == \E t \in valid_types[entry.name] : IsSubclass(entry.kind, t)

\* for arg in argument: the positions the loop visits
LoopEndSkipsLast(arg) == Len(arg) - 1
LoopEnd(arg) == Len(arg)

\* argument[name]: the entry of that name
Lookup(arg, name) == arg[CHOOSE i \in 1..Len(arg) : arg[i].name = name]

\* argument["direction"] not in ["minimize", "maximize"]
DirectionRejected(arg) == Lookup(arg, "direction").val \notin {"minimize", "maximize"}

\* "value" not in argument["params"].columns
ParamsRejected(arg) == "value" \notin Lookup(arg, "params").columns

\* argument["error_handling"] not in ["raise", "continue"]
ErrorHandlingRejected(arg) ==
    Lookup(arg, "error_handling").val \notin {"raise", "continue"}

\* A value of each name's usual type.
UsualKind ==
    [direction |-> "str",
     criterion |-> "callable",
     params |-> "DataFrame",
     algorithm |-> "str",
     criterion_kwargs |-> "dict",
     constraints |-> "list",
     algo_options |-> "dict",
     derivative |-> "NoneType",
     derivative_kwargs |-> "dict",
     criterion_and_derivative |-> "callable",
     criterion_and_derivative_kwargs |-> "dict",
     numdiff_options |-> "dict",
     logging |-> "Path",
     log_options |-> "dict",
     error_handling |-> "str",
     error_penalty |-> "dict",
     cache_size |-> "float"]

\* the types given to the entries that do not get their usual one
OtherKinds == {"NoneType", "bool"}

Directions == {"minimize", "maximize", "sideways"}
ParamsColumns == {{"value", "lower"}, {"lower"}}
ErrorHandlings == {"raise", "continue", "ignore"}

\* The dictionary whose entries of the names in DOMAIN other (a function from
\* positions to types) get the type other gives them; an entry that is not
\* of its usual type carries no string and no columns.
MakeArgument(other, d, cols, e) ==
    [i \in 1..Len(ArgNames) |->
        LET name == ArgNames[i]
            kind == IF i \in DOMAIN other THEN other[i] ELSE UsualKind[name]
        IN [name |-> name,
            kind |-> kind,
            val |-> IF kind # "str" THEN ""
                    ELSE IF name = "direction" THEN d
                    ELSE IF name = "error_handling" THEN e
                    ELSE "",
            columns |-> IF kind = "DataFrame" THEN cols ELSE {}]]

Arguments ==
    {MakeArgument(other, d, cols, e) :
        other \in UNION {[W -> OtherKinds] :
                          W \in {X \in SUBSET (1..Len(ArgNames)) :
                                   Cardinality(X) <= MaxWrong}},
        d \in Directions, cols \in ParamsColumns, e \in ErrorHandlings}

CaRaise(e) == ca' = [ca EXCEPT !.phase = "done", !.outcome = e]

\* lines 28-32: one pass of the loop over the entries
CheckType ==
    /\ ca.phase = "types"
    /\ ca.i <= LoopEnd(argument)
    /\ IF ~isinstance(argument[ca.i])
          THEN CaRaise("TypeError")
          ELSE ca' = [ca EXCEPT !.i = ca.i + 1]
    /\ UNCHANGED argument
    /\ UNCHANGED notCheck

\* line 28: the loop ends
EndOfLoop ==
    /\ ca.phase = "types"
    /\ ca.i > LoopEnd(argument)
    /\ ca' = [ca EXCEPT !.phase = "direction"]
    /\ UNCHANGED argument
    /\ UNCHANGED notCheck

\* lines 34-35
CheckDirection ==
    /\ ca.phase = "direction"
    /\ IF DirectionRejected(argument)
          THEN CaRaise("ValueError")
          ELSE ca' = [ca EXCEPT !.phase = "params"]
    /\ UNCHANGED argument
    /\ UNCHANGED notCheck

\* lines 37-38
CheckParams ==
    /\ ca.phase = "params"
    /\ IF ParamsRejected(argument)
          THEN CaRaise("ValueError")
          ELSE ca' = [ca EXCEPT !.phase = "error_handling"]
    /\ UNCHANGED argument
    /\ UNCHANGED notCheck

\* lines 40-41, and the return
CheckErrorHandling ==
    /\ ca.phase = "error_handling"
    /\ IF ErrorHandlingRejected(argument)
          THEN CaRaise("ValueError")
          ELSE ca' = [ca EXCEPT !.phase = "done", !.outcome = "ok"]
    /\ UNCHANGED argument
    /\ UNCHANGED notCheck

InitCheck ==
    /\ argument \in Arguments
    /\ ca = [phase |-> "types", i |-> 1, outcome |-> "pending"]
    /\ IdleTao
    /\ IdleHist
    /\ IdlePlots

NextCheck ==
    \/ CheckType
    \/ EndOfLoop
    \/ CheckDirection
    \/ CheckParams
    \/ CheckErrorHandling

SpecCheck == InitCheck /\ [][NextCheck]_vars

\* some entry is not an instance of the types listed for its name
SomeWrongType == \E i \in 1..Len(argument) : ~isinstance(argument[i])

\* some value check would reject the dictionary
SomeInvalidValue ==
    \/ Lookup(argument, "direction").val \notin {"minimize", "maximize"}
    \/ "value" \notin Lookup(argument, "params").columns
    \/ Lookup(argument, "error_handling").val \notin {"raise", "continue"}

\* C6: if some entry of the argument dictionary is not an instance of the
\* types listed for its name, check_argument never reaches a value check and
\* ends with TypeError, whatever direction, the params columns and
\* error_handling are.
C6_TypeErrorFirst ==
    SomeWrongType =>
        /\ ca.phase \in {"types", "done"}
        /\ ca.outcome \in {"pending", "TypeError"}
        /\ ca.phase = "done" => ca.outcome = "TypeError"

C6_Witness ==
    /\ ca.outcome = "TypeError"
    /\ ca.i = Len(argument)
    /\ Lookup(argument, "direction").val = "sideways"
    /\ "value" \notin Lookup(argument, "params").columns
    /\ Lookup(argument, "error_handling").val = "ignore"

(***************************************************************************)
(* histogram_columns.py                                                     *)
(*                                                                          *)
(* A row of the tidy DataFrame holds its values of the group columns (g, a  *)
(* tuple as long as group_cols), of the subgroup column (sub, 0 when there  *)
(* is none) and of the value column (value, or nan = TRUE for a missing     *)
(* one).  Rows that agree in all of these are interchangeable, so the id    *)
(* column, the last sort key, is left out.                                  *)
(*                                                                          *)
(* Arithmetic is exact: with x_padding = p/q every bin edge, midpoint and   *)
(* width is carried as a whole multiple of 1/Scale, Scale = 2*q*num_bins.   *)
(* A number with tiny = TRUE is that multiple of 1e-50 instead: what        *)
(* .clip(1e-50) produces for a group whose values are all 0.  Added to any  *)
(* other value of the model a tiny number is lost in float rounding.        *)
(***************************************************************************)
GroupValues == {1, 2}
SubgroupValues == {1, 2}
Values == {0, 1}
NumBins == {2, 3}
Paddings == {[p |-> 0, q |-> 1], [p |-> 1, q |-> 2]}

Min(S) == CHOOSE x \in S : \A y \in S : x <= y
Max(S) == CHOOSE x \in S : \A y \in S : x >= y

Scale(num_bins, pad) == 2 * pad.q * num_bins

RECURSIVE TupleLT(_, _, _)
TupleLT(a, b, i) ==
    IF i > Len(a) THEN FALSE
    ELSE IF a[i] # b[i] THEN a[i] < b[i]
    ELSE TupleLT(a, b, i + 1)

\* drop_and_sort_cols (lines 42-45): the group columns, the subgroup column
\* if there is one, the value column
SortKey(r) == r.g \o <<r.sub, r.value>>

RECURSIVE Insert(_, _)
Insert(sorted, r) ==
    IF sorted = <<>> THEN <<r>>
    ELSE IF TupleLT(SortKey(r), SortKey(Head(sorted)), 1) THEN <<r>> \o sorted
    ELSE <<Head(sorted)>> \o Insert(Tail(sorted), r)

\* hist_data.sort_values(drop_and_sort_cols), line 47
RECURSIVE sort_values(_)
sort_values(df) ==
    IF df = <<>> THEN <<>>
    ELSE Insert(sort_values(Tail(df)), Head(df))

\* df.dropna(subset=drop_and_sort_cols, how="any"), line 46
dropna(df) == SelectSeq(df, LAMBDA r : ~r.nan)

\* _calculate_x_bounds (lines 102-108) on the values of one group, in
\* multiples of 1/scale
calculate_x_bounds(vals, pad, scale) ==
    LET raw_min == Min(vals)
        raw_max == Max(vals)
        spread == raw_max - raw_min
    IN IF spread > 0
       THEN LET white_space == (spread * pad.p * scale) \div pad.q
            IN [x_min |-> raw_min * scale - white_space,
                x_max |-> raw_max * scale + white_space,
                tiny |-> FALSE]
       ELSE IF pad.p = 0 \/ raw_min # 0
       THEN [x_min |-> raw_min * scale, x_max |-> raw_max * scale,
             tiny |-> FALSE]
       ELSE [x_min |-> 0 - (pad.p * scale) \div pad.q,
             x_max |-> (pad.p * scale) \div pad.q,
             tiny |-> TRUE]

\* np.linspace(start=xmin, stop=xmax, num=num_bins + 1, retstep=True), line 92
rect_width_of(b, num_bins) == (b.x_max - b.x_min) \div num_bins

Edge(b, num_bins, i) == b.x_min + i * rect_width_of(b, num_bins)

\* midpoints = bins[:-1] + rect_width / 2, line 95: the midpoint of bin i
Midpoint(b, num_bins, i) ==
    Edge(b, num_bins, i - 1) + rect_width_of(b, num_bins) \div 2

NaN == [nan |-> TRUE, x |-> 0, tiny |-> FALSE]

\* pd.cut(df[value_col], bins, labels=midpoints), line 96: the midpoint of
\* the bin (edge, next edge] that holds the value, NaN outside all bins
cut(value, b, num_bins, scale) ==
    LET v == IF b.tiny THEN 0 ELSE value * scale
        holds == {i \in 1..num_bins :
                    Edge(b, num_bins, i - 1) < v /\ v <= Edge(b, num_bins, i)}
    IN IF holds = {} THEN NaN
       ELSE [nan |-> FALSE,
             x |-> Midpoint(b, num_bins, CHOOSE i \in holds : TRUE),
             tiny |-> b.tiny]

\* pd.cut refuses bins that are not unique, unless there are just two edges
cut_raises(b, num_bins) == b.x_min = b.x_max /\ num_bins + 1 # 2

\* _bin_width_and_midpoints (lines 73-87): the rows binned together with
\* row r are those of its group, group_cols[:-1], or the whole table
BinGroupPerPlot(r, group_cols) == r.g
BinGroup(r, group_cols) ==
    IF group_cols > 1 THEN SubSeq(r.g, 1, group_cols - 1) ELSE <<>>

GroupBounds(t, r, group_cols, pad, scale) ==
    calculate_x_bounds(
        {t[j].value : j \in {k \in 1..Len(t) :
                               BinGroup(t[k], group_cols) = BinGroup(r, group_cols)}},
        pad, scale)

\* _bin_width_and_midpoints_per_group (lines 90-99), row by row
bin_width_and_midpoints(t, group_cols, num_bins, pad) ==
    LET scale == Scale(num_bins, pad)
    IN [i \in 1..Len(t) |->
          LET b == GroupBounds(t, t[i], group_cols, pad, scale)
          IN [g |-> t[i].g, sub |-> t[i].sub, value |-> t[i].value,
              binned_x |-> cut(t[i].value, b, num_bins, scale),
              rect_width |-> [w |-> rect_width_of(b, num_bins), tiny |-> b.tiny],
              raises |-> cut_raises(b, num_bins)]]

\* groupby(group_cols + ["binned_x"]), line 64: the key of a row
DodgeKeyBinOnly(r) == <<r.binned_x>>
DodgeKey(r) == <<r.g, r.binned_x>>

\* 0.5 + groupby(...).cumcount(), line 64, in halves: 2 * dodge.  For a row
\* without a bin the count runs over all such rows, or is missing, as the
\* pandas at hand has it (marks_dropped).
dodge(t, i, marks_dropped) ==
    IF t[i].binned_x.nan
    THEN IF marks_dropped THEN [nan |-> TRUE, halves |-> 0]
         ELSE [nan |-> FALSE,
               halves |-> 1 + 2 * Cardinality({j \in 1..(i - 1) : t[j].binned_x.nan})]
    ELSE [nan |-> FALSE,
          halves |-> 1 + 2 * Cardinality({j \in 1..(i - 1) :
                                            DodgeKey(t[j]) = DodgeKey(t[i])})]

\* _create_color_col (lines 122-126): the position of the row's subgroup
\* among sr.unique(), which lists the values by first appearance; 0 stands
\* for the fixed "#035096" of line 69
color(t, i, subgroup_col) ==
    IF ~subgroup_col THEN 0
    ELSE 1 + Cardinality({t[j].sub : j \in {k \in 1..(i - 1) :
             /\ t[k].sub # t[i].sub
             /\ \A m \in 1..(k - 1) : t[m].sub # t[k].sub}})

\* The tables of at most k rows over a set of rows, one for each multiset:
\* line 47 sorts the table, so the order of its rows going in is immaterial.
\* The rows go in by descending sort key.
RECURSIVE TablesOf(_, _)
TablesOf(R, k) ==
    IF k = 0 THEN {<<>>}
    ELSE LET shorter == TablesOf(R, k - 1)
         IN shorter \cup
            {<<q[1]>> \o q[2] :
                q \in {c \in R \X {u \in shorter : Len(u) = k - 1} :
                         \/ c[2] = <<>>
                         \/ ~TupleLT(SortKey(c[1]), SortKey(Head(c[2])), 1)}}

RECURSIVE Tuples(_)
Tuples(n) ==
    IF n = 0 THEN {<<>>}
    ELSE {Append(t, x) : t \in Tuples(n - 1), x \in GroupValues}

RowsOf(group_cols, subgroup_col) ==
    {[g |-> gg, sub |-> s, value |-> v, nan |-> FALSE] :
        gg \in Tuples(group_cols),
        s \in (IF subgroup_col THEN SubgroupValues ELSE {0}),
        v \in Values}
    \cup
    {[g |-> gg, sub |-> s, value |-> 0, nan |-> TRUE] :
        gg \in Tuples(group_cols),
        s \in (IF subgroup_col THEN SubgroupValues ELSE {0})}

\* lines 42-55: drop the rows with missing values, sort, renumber
DropAndSort ==
    /\ hist.phase = "input"
    /\ hist' = [hist EXCEPT !.phase = "sorted",
                            !.df = sort_values(dropna(hist.df))]
    /\ UNCHANGED notHist

\* lines 56-62
BinWidthAndMidpoints ==
    /\ hist.phase = "sorted"
    /\ LET t == bin_width_and_midpoints(hist.df, hist.group_cols,
                                        hist.num_bins, hist.x_padding)
       IN IF hist.df = <<>>
          THEN \* the bounds of no values are NaN, and so are all the edges
               hist' = [hist EXCEPT !.phase = "done", !.outcome = "ValueError"]
          ELSE IF \E i \in 1..Len(t) : t[i].raises
          THEN hist' = [hist EXCEPT !.phase = "done", !.outcome = "ValueError"]
          ELSE hist' = [hist EXCEPT !.phase = "binned", !.df = t]
    /\ UNCHANGED notHist

\* lines 64-70
DodgeAndColor ==
    /\ hist.phase = "binned"
    /\ \E marks_dropped \in BOOLEAN :
          hist' = [hist EXCEPT
                     !.phase = "done",
                     !.outcome = "ok",
                     !.marks_dropped = marks_dropped,
                     !.df = [i \in 1..Len(hist.df) |->
                               [g |-> hist.df[i].g,
                                sub |-> hist.df[i].sub,
                                value |-> hist.df[i].value,
                                binned_x |-> hist.df[i].binned_x,
                                rect_width |-> hist.df[i].rect_width,
                                dodge |-> dodge(hist.df, i, marks_dropped),
                                color |-> color(hist.df, i, hist.subgroup_col)]]]
    /\ UNCHANGED notHist

InitHist ==
    /\ \E group_cols \in 0..2, subgroup_col \in BOOLEAN,
          num_bins \in NumBins, pad \in Paddings :
          \E df \in TablesOf(RowsOf(group_cols, subgroup_col), MaxRows) :
             hist = [phase |-> "input", df |-> df, group_cols |-> group_cols,
                     subgroup_col |-> subgroup_col, num_bins |-> num_bins,
                     x_padding |-> pad, marks_dropped |-> FALSE,
                     outcome |-> "pending"]
    /\ IdleTao
    /\ IdleCheck
    /\ IdlePlots

NextHist ==
    \/ DropAndSort
    \/ BinWidthAndMidpoints
    \/ DodgeAndColor

SpecHist == InitHist /\ [][NextHist]_vars

(***************************************************************************)
(* Properties of add_histogram_columns_to_tidy_df (SpecHist).               *)
(***************************************************************************)
Returned == hist.phase = "done" /\ hist.outcome = "ok"

\* the rows of the output in the same plot and the same bin as row i
Stack(t, i) ==
    {j \in 1..Len(t) : /\ t[j].g = t[i].g
                       /\ ~t[j].binned_x.nan
                       /\ t[j].binned_x = t[i].binned_x}

\* C7: in the output the rows are sorted, and the k rows of one plot (one
\* combination of the group columns) and one bin carry the dodge values 0.5,
\* 1.5, ..., k - 0.5, each once and ascending in row order.
C7_StackOfBricks ==
    Returned =>
        LET t == hist.df
        IN /\ \A i, j \in 1..Len(t) :
                 i < j => ~TupleLT(SortKey(t[j]), SortKey(t[i]), 1)
           /\ \A i \in 1..Len(t) :
                 ~t[i].binned_x.nan =>
                    LET stack == Stack(t, i)
                        k == Cardinality(stack)
                    IN /\ \A j \in stack : ~t[j].dodge.nan
                       /\ {t[j].dodge.halves : j \in stack} =
                             {2 * m - 1 : m \in 1..k}
                       /\ \A j, m \in stack :
                             j < m => t[j].dodge.halves < t[m].dodge.halves

C7_Witness ==
    /\ Returned
    /\ Len(hist.df) = 3
    /\ 3 \in Stack(hist.df, 1)
    /\ 2 \notin Stack(hist.df, 1)
    /\ hist.df[2].g = hist.df[1].g
    /\ ~hist.df[2].binned_x.nan
    /\ hist.df[1].dodge.halves = 1
    /\ hist.df[2].dodge.halves = 1
    /\ hist.df[3].dodge.halves = 3

\* the group of a row: its values of group_cols[:-1]
GroupOf(r) ==
    IF hist.group_cols >= 2 THEN SubSeq(r.g, 1, hist.group_cols - 1) ELSE <<>>

\* the bounds computed from the smallest and the largest value of the group
BoundsOfGroup(t, i) ==
    calculate_x_bounds(
        {t[j].value : j \in {k \in 1..Len(t) : GroupOf(t[k]) = GroupOf(t[i])}},
        hist.x_padding, Scale(hist.num_bins, hist.x_padding))

\* C8: in the output every row's rect_width is the width of the bins between
\* the bounds of its group (the whole table with fewer than two group
\* columns), its binned_x is one of the midpoints of these bins, the one
\* whose bin holds its value, and so rows of one group agree on rect_width
\* and on the midpoints, whatever their plot.
C8_BinsPerGroup ==
    Returned =>
        LET t == hist.df
            nb == hist.num_bins
        IN \A i \in 1..Len(t) :
              LET b == BoundsOfGroup(t, i)
                  w == (b.x_max - b.x_min) \div nb
              IN /\ t[i].rect_width = [w |-> w, tiny |-> b.tiny]
                 /\ w > 0
                 /\ \/ t[i].binned_x.nan
                    \/ /\ t[i].binned_x.tiny = b.tiny
                       /\ \E m \in 1..nb :
                             t[i].binned_x.x = b.x_min + (m - 1) * w + w \div 2
                       /\ LET v == IF b.tiny THEN 0
                                   ELSE t[i].value * Scale(nb, hist.x_padding)
                          IN /\ 2 * t[i].binned_x.x - w < 2 * v
                             /\ 2 * v <= 2 * t[i].binned_x.x + w
                 /\ \A j \in 1..Len(t) :
                       GroupOf(t[j]) = GroupOf(t[i]) =>
                          t[j].rect_width = t[i].rect_width

C8_Witness ==
    /\ Returned
    /\ hist.group_cols = 2
    /\ Len(hist.df) = 3
    /\ hist.df[1].g = <<1, 1>> /\ hist.df[1].value = 1
    /\ hist.df[2].g = <<1, 2>> /\ hist.df[2].value = 0
    /\ hist.df[3].g = <<2, 1>> /\ hist.df[3].value = 0
    /\ hist.df[3].rect_width.tiny
    /\ hist.df[2].rect_width.w > 0
    /\ hist.df[2].rect_width = hist.df[1].rect_width
    /\ ~hist.df[1].binned_x.nan

(***************************************************************************)
(* basic_plot.py: _create_plots and the titles of the nested groups.        *)
(*                                                                          *)
(* A group tuple is a tuple of group values, one per group column.  plots   *)
(* is the list of figures: the widget, title figures (level, name) and      *)
(* plots (tup, new_group).                                                  *)
(***************************************************************************)
GroupColumnCounts == {0, 1, 2, 3}

\* np.nan, which is no group value
GroupNaN == Min(GroupValues) - 1

\* old_name != new_name on two scalars: NaN differs from everything
ScalarNe(a, b) == a = GroupNaN \/ b = GroupNaN \/ a # b

\* old_group_tup[:-1] != group_tup[:-1] on two tuples of equal length: the
\* elements are compared by identity first, and np.nan is one object
PrefixNe(old, tup) == \E k \in 1..(Len(tup) - 1) : old[k] # tup[k]

\* title_fig(group_type, group_name, level=level), lines 383-399
title_fig(group_type, group_name, level) ==
    [kind |-> "title", level |-> level, type |-> group_type,
     name |-> group_name, tup |-> <<>>, new_group |-> FALSE]

\* the figure of lines 185-218
param_plot(tup, new_group) ==
    [kind |-> "plot", level |-> 0, type |-> 0, name |-> 0, tup |-> tup,
     new_group |-> new_group]

\* create_group_widgets(...): the list the figures are appended to
Widgets == <<[kind |-> "widget", level |-> 0, type |-> 0, name |-> 0,
              tup |-> <<>>, new_group |-> FALSE]>>

\* for level in range(len(group_cols) - 1), line 403
TitleLevelsButLast(group_cols) == 0..(group_cols - 3)
TitleLevels(group_cols) == 0..(group_cols - 2)

\* _write_titles (lines 402-408): the title figures appended, by level
RECURSIVE write_titles_from(_, _, _, _)
write_titles_from(level, group_cols, old_group_tup, group_tup) ==
    IF level \notin TitleLevels(group_cols) THEN <<>>
    ELSE (IF ScalarNe(old_group_tup[level + 1], group_tup[level + 1])
          THEN <<title_fig(level + 1, group_tup[level + 1], level)>>
          ELSE <<>>)
         \o write_titles_from(level + 1, group_cols, old_group_tup, group_tup)

write_titles(group_cols, old_group_tup, group_tup) ==
    write_titles_from(0, group_cols, old_group_tup, group_tup)

\* _check_and_handle_group_switch (lines 230-243): the figures appended, the
\* flag and the remembered tuple
check_and_handle_group_switch(group_cols, old_group_tup, group_tup) ==
    IF group_cols < 2
    THEN [titles |-> <<>>, new_group |-> FALSE, old_group_tup |-> old_group_tup]
    ELSE LET new_group == PrefixNe(old_group_tup, group_tup)
         IN IF new_group
            THEN [titles |-> write_titles(group_cols, old_group_tup, group_tup),
                  new_group |-> TRUE,
                  old_group_tup |-> group_tup]
            ELSE [titles |-> <<>>, new_group |-> FALSE,
                  old_group_tup |-> old_group_tup]

\* the sequences of at most k group tuples
RECURSIVE Walks(_, _)
Walks(T, k) ==
    IF k = 0 THEN {<<>>}
    ELSE LET shorter == Walks(T, k - 1)
         IN shorter \cup {Append(w, t) : w \in {u \in shorter : Len(u) = k - 1},
                                         t \in T}

\* what the loop of line 177 walks over: [(None, df)] without group columns,
\* the groups of df otherwise
GroupBys(group_cols) ==
    IF group_cols = 0 THEN {<<<<>>>>}
    ELSE Walks(Tuples(group_cols), MaxPlots) \ {<<>>}

\* lines 158-175
Setup ==
    /\ plt.phase = "setup"
    /\ plt' = [plt EXCEPT
                 !.phase = "loop",
                 !.plots =
                    IF plt.group_cols = 0
                    THEN Append(Widgets, title_fig("All Parameters", "", 0))
                    ELSE IF plt.group_cols = 1
                    THEN Append(Widgets, title_fig(1, "", 0))
                    ELSE Widgets,
                 !.old_group_tup =
                    IF plt.group_cols = 0 THEN <<>>
                    ELSE [k \in 1..plt.group_cols |-> GroupNaN]]
    /\ UNCHANGED notPlots

\* lines 177-218: one pass of the loop
NextGroup ==
    /\ plt.phase = "loop"
    /\ plt.i < Len(plt.gb)
    /\ LET group_tup == plt.gb[plt.i + 1]
           r == check_and_handle_group_switch(plt.group_cols, plt.old_group_tup,
                                              group_tup)
       IN plt' = [plt EXCEPT
                    !.i = plt.i + 1,
                    !.plots = Append(plt.plots \o r.titles,
                                     param_plot(group_tup, r.new_group)),
                    !.new_group = r.new_group,
                    !.old_group_tup = r.old_group_tup]
    /\ UNCHANGED notPlots

\* lines 220-227
Finish ==
    /\ plt.phase = "loop"
    /\ plt.i >= Len(plt.gb)
    /\ plt' = [plt EXCEPT !.phase = "done"]
    /\ UNCHANGED notPlots

InitPlots ==
    /\ \E group_cols \in GroupColumnCounts :
          \E gb \in GroupBys(group_cols) :
             plt = [phase |-> "setup", group_cols |-> group_cols, gb |-> gb,
                    i |-> 0, old_group_tup |-> <<>>, plots |-> <<>>,
                    new_group |-> FALSE]
    /\ IdleTao
    /\ IdleCheck
    /\ IdleHist

NextPlots ==
    \/ Setup
    \/ NextGroup
    \/ Finish

SpecPlots == InitPlots /\ [][NextPlots]_vars

(***************************************************************************)
(* Properties of _create_plots (SpecPlots).                                 *)
(***************************************************************************)
\* the positions of the title figures of a level before position p
TitlesBefore(p, level) ==
    {q \in 1..(p - 1) : plt.plots[q].kind = "title" /\ plt.plots[q].level = level}

Titles == {q \in 1..Len(plt.plots) : plt.plots[q].kind = "title"}

PlotsAt == {q \in 1..Len(plt.plots) : plt.plots[q].kind = "plot"}

\* With two or more group columns: before every plot and for every level
\* l <= n - 2 a title of level l has been appended, and the latest one names
\* the plot's value of group_cols[l].
TitlesSynchronized ==
    plt.group_cols >= 2 =>
        \A p \in PlotsAt :
            \A level \in 0..(plt.group_cols - 2) :
                /\ TitlesBefore(p, level) # {}
                /\ plt.plots[Max(TitlesBefore(p, level))].name =
                      plt.plots[p].tup[level + 1]

\* With fewer than two group columns: one title figure, appended before the
\* first plot, and new_group is always False.
OneTitle ==
    (plt.group_cols < 2 /\ plt.phase \in {"loop", "done"}) =>
        /\ Cardinality(Titles) = 1
        /\ \A p \in PlotsAt : \A q \in Titles : q < p
        /\ \A p \in PlotsAt : ~plt.plots[p].new_group
        /\ ~plt.new_group

\* the levels of the title figures a step appends, in order
AppendedLevels ==
    LET from == Len(plt.plots) + 1
        to == Len(plt'.plots) - 1
    IN [k \in 1..(to - from + 1) |-> plt'.plots[from + k - 1].level]

RECURSIVE LevelsFrom(_, _, _)
LevelsFrom(level, old, tup) ==
    IF level > plt.group_cols - 2 THEN <<>>
    ELSE (IF PrefixNe(old, tup) /\ ScalarNe(old[level + 1], tup[level + 1])
          THEN <<level>> ELSE <<>>)
         \o LevelsFrom(level + 1, old, tup)

\* One pass of the loop with two or more group columns appends a title of
\* level l exactly when the first n - 1 components of the tuple differ from
\* the remembered tuple and component l differs, then the plot; it replaces
\* the remembered tuple exactly on such a switch.
TitlesExactlyOnSwitch ==
    (plt.phase = "loop" /\ plt'.i = plt.i + 1 /\ plt.group_cols >= 2) =>
        LET tup == plt.gb[plt.i + 1]
            old == plt.old_group_tup
        IN /\ AppendedLevels = LevelsFrom(0, old, tup)
           /\ \A q \in (Len(plt.plots) + 1)..(Len(plt'.plots) - 1) :
                 plt'.plots[q].kind = "title"
           /\ plt'.plots[Len(plt'.plots)] = param_plot(tup, PrefixNe(old, tup))
           /\ plt'.old_group_tup = IF PrefixNe(old, tup) THEN tup ELSE old

\* C9: the titles stay synchronized with the nested groups over every walk
\* of group tuples: TitlesSynchronized, TitlesExactlyOnSwitch and OneTitle.
C9_TitlesSynchronized ==
    /\ [](TitlesSynchronized /\ OneTitle)
    /\ [][TitlesExactlyOnSwitch]_vars

C9_Witness ==
    /\ plt.phase = "done"
    /\ plt.group_cols = 3
    /\ \E p \in PlotsAt :
          /\ plt.plots[p].new_group
          /\ Max(TitlesBefore(p, 1)) < Max(TitlesBefore(p, 0))
          /\ plt.plots[p - 1].kind = "title"
          /\ plt.plots[p - 2].kind = "plot"

====
